---- MODULE Spec2Model ----
(***************************************************************************)
(* Model of the allocation-planning and rebalancing pipeline of            *)
(* invest-agents: orchestrator/main.py (Plan Builder), common/risk/risk.py *)
(* (position cap), run_validate.py (Plan Validator),                       *)
(* interfaces/broker_adapter/paper.py (Paper Execution Engine) and         *)
(* run_all.py (pipeline driver).                                           *)
(*                                                                         *)
(* Numbers.  Python floats are modelled by exact rationals:                *)
(*   - a weight (plan weight, policy class weight, band, position cap) is  *)
(*     an integer number of 1/WeightScale, the grid of round(.., 6);       *)
(*   - a confidence is an integer (only ratios of confidences matter);     *)
(*   - a price is a numerator over PriceDen (EUR per unit);                *)
(*   - money is an integer number of sub-units, 1/PriceDen of a            *)
(*     micro-euro, so that quantity * price is exact;                      *)
(*   - a quantity is an integer number of 1/QtyScale units.                *)
(* round(x, 6) is round-half-to-even of the exact value.                   *)
(***************************************************************************)
EXTENDS Integers, Sequences, FiniteSets, TLC

VARIABLES
    strategy,     \* config/strategy.yaml
    sigFiles,     \* out/signals_<class>.json, in the order load_signals reads them
    planFile,     \* out/orchestrator_plan.json
    portFile,     \* out/portfolio.json
    execLog,      \* out/executions.log: the lines appended so far
    oracle,       \* latest_price per symbol: a price numerator, 0 when unavailable
    pc,           \* position of the engine process in main of paper.py
    port,         \* main: the dict loaded from the Portfolio file
    positions,    \* main: positions
    cash,         \* main: cash (not rounded)
    target_w,     \* main: target weight per instrument
    nav,          \* main: nav, computed after Phase 1
    executions,   \* main: the Execution Records of this cycle
    logged,       \* main: how many of them are written to the log
    limited,      \* the instruments whose Phase 2 trade was cut to cash or holding
    portBefore,   \* the Portfolio file as it was when the cycle started
    failedAt,     \* where the process died, "" while it has not
    valJson,      \* out/validation.json
    valLog,       \* out/validation.log: the reports appended so far
    valExit,      \* exit status of run_validate.py, -1 while it has not run
    step,         \* run_all.main: index of the stage to run next
    pipe,         \* run_all.main: "running", "done" or "aborted"
    trace,        \* the stages that have run, with their exit status, in order
    peer          \* a second engine process on the same files: its position and locals

bvars == <<strategy, sigFiles, planFile>>
ovars == <<oracle, peer>>
fvars == <<portFile, execLog, ovars>>
lvars == <<port, positions, cash, target_w, nav, executions, logged, limited>>
evars == <<fvars, pc, lvars, portBefore, failedAt>>
vvars == <<valJson, valLog, valExit>>
pvars == <<step, pipe, trace>>
vars == <<bvars, evars, vvars, pvars>>

\* ------------------------------------------------------------------ scales
WeightScale == 1000000     \* round(class_weight * w, 6): weights in 1e-6
QtyScale == 1000000        \* round(amount / price, 6): quantities in 1e-6

\* ------------------------------------------------------------------ bounds
MaxConf == 3               \* confidences range over 0..MaxConf
MaxOrders == 2             \* orders in a plan handed to the engine
MaxHistory == 3            \* history entries after which no further cycle starts
PriceDen == 2              \* prices are multiples of 1/PriceDen EUR

SubPerMicro == PriceDen                \* sub-units in 1e-6 EUR
SubPerEur == PriceDen * QtyScale       \* sub-units in 1 EUR

\* ------------------------------------------------------------- arithmetic
Abs(x) == IF x < 0 THEN -x ELSE x
Min(a, b) == IF a <= b THEN a ELSE b
Max(a, b) == IF a >= b THEN a ELSE b

\* floor(n / d) for d > 0 (math.floor of a quotient)
FloorDiv(n, d) == n \div d

\* round(n / d) to the nearest integer, ties to even, for d > 0
RoundHalfEven(n, d) ==
    LET q == n \div d
        r == n % d
    IN  IF 2 * r < d THEN q
        ELSE IF 2 * r > d THEN q + 1
        ELSE IF q % 2 = 0 THEN q ELSE q + 1

RECURSIVE GCD(_, _)
GCD(a, b) == IF b = 0 THEN Abs(a) ELSE GCD(b, a % Abs(b))

RECURSIVE SumSeq(_)
SumSeq(s) == IF s = <<>> THEN 0 ELSE Head(s) + SumSeq(Tail(s))

Range(s) == {s[i] : i \in DOMAIN s}

\* ------------------------------------------------ ordered dictionaries
\* A Python dict is a sequence of <<key, value>> pairs without repeated keys,
\* in insertion order.
Keys(d) == {d[i][1] : i \in DOMAIN d}
KeySeq(d) == [i \in DOMAIN d |-> d[i][1]]
ValSeq(d) == [i \in DOMAIN d |-> d[i][2]]
HasKey(d, k) == \E i \in DOMAIN d : d[i][1] = k
Get(d, k, default) ==
    IF HasKey(d, k) THEN d[CHOOSE i \in DOMAIN d : d[i][1] = k][2] ELSE default
\* d[k] = v: an existing key keeps its place, a new key goes last
Put(d, k, v) ==
    IF HasKey(d, k)
    THEN [i \in DOMAIN d |-> IF d[i][1] = k THEN <<k, v>> ELSE d[i]]
    ELSE Append(d, <<k, v>>)
\* {k: v for k, v in d.items() if Keep(k, v)}
RECURSIVE Filter(_, _)
Filter(Keep(_, _), d) ==
    IF d = <<>> THEN <<>>
    ELSE (IF Keep(Head(d)[1], Head(d)[2]) THEN <<Head(d)>> ELSE <<>>)
         \o Filter(Keep, Tail(d))

\* ============================================================ Plan Builder
\* orchestrator/main.py, common/risk/risk.py

\* A file: missing, present but unparsable, or present with a content.  The
\* content of a file that cannot be read is a placeholder nothing looks at.
File(c) == [exists |-> TRUE, valid |-> TRUE, content |-> c]
NoFile(c0) == [exists |-> FALSE, valid |-> FALSE, content |-> c0]
Corrupt(c0) == [exists |-> TRUE, valid |-> FALSE, content |-> c0]
Readable(f) == f.exists /\ f.valid

EmptyPlan == [classes |-> <<>>, orders |-> <<>>]

\* infer_class: explicit membership sets, "equities" by default
infer_class(instrument_id) ==
    IF instrument_id \in {"VNQ", "IPRP", "IWDP", "PLD", "O", "SPG"} THEN "reits"
    ELSE IF instrument_id \in {"BTC", "ETH"} THEN "crypto"
    ELSE IF instrument_id \in {"IEF", "TLT", "SHY", "IEGA", "IEAC", "LQD", "BUND"}
         THEN "fixed_income"
    ELSE "equities"

Sig(inst, conf) == [instrument_id |-> inst, confidence |-> conf]

\* A signal is [instrument_id, confidence].  by_class of build_plan: an ordered
\* dict class -> ordered dict instrument -> max confidence (the .get default
\* 0.0 takes part in the max).
RECURSIVE GroupByClass(_, _)
GroupByClass(by_class, signals) ==
    IF signals = <<>> THEN by_class
    ELSE LET s    == Head(signals)
             inst == s.instrument_id
             cls  == infer_class(inst)
             cur  == Get(by_class, cls, <<>>)
             upd  == Put(cur, inst, Max(s.confidence, Get(cur, inst, 0)))
         IN  GroupByClass(Put(by_class, cls, upd), Tail(signals))

\* A dict of float weights is [den, d]: d maps each key to a numerator, all
\* over the one denominator den > 0.
Reduce(w) ==
    LET nums == ValSeq(w.d)
        RECURSIVE G(_, _)
        G(g, s) == IF s = <<>> THEN g ELSE G(GCD(g, Head(s)), Tail(s))
        g == G(w.den, nums)
    IN  [den |-> w.den \div g,
         d   |-> [i \in DOMAIN w.d |-> <<w.d[i][1], w.d[i][2] \div g>>]]

\* Faulty variant of cap_position_weights: the capped weights are returned as they are,
\* without the division by their total.
cap_position_weights_NoRenormalize(weights, max_pct) ==
    Reduce([den |-> weights.den * WeightScale,
            d   |-> [i \in DOMAIN weights.d |->
                       <<weights.d[i][1],
                         Min(weights.d[i][2] * WeightScale, max_pct * weights.den)>>]])

\* cap_position_weights(weights, max_pct): min(w, max_pct) for every entry,
\* then one division of every entry by the new total (unless it is 0).
\* max_pct is in 1/WeightScale.
cap_position_weights(weights, max_pct) ==
    LET capped == Reduce([den |-> weights.den * WeightScale,
                          d   |-> [i \in DOMAIN weights.d |->
                                     <<weights.d[i][1],
                                       Min(weights.d[i][2] * WeightScale,
                                           max_pct * weights.den)>>]])
        s == SumSeq(ValSeq(capped.d))
    IN  IF s = 0 THEN capped
        ELSE [den |-> s, d |-> capped.d]

\* A strategy is [alloc_target: ordered dict class -> weight, bands,
\* position_max_pct], weights in 1/WeightScale.
Strat(alloc, bands, pos_max) ==
    [alloc_target |-> alloc, bands |-> bands, position_max_pct |-> pos_max]

\* class_plan of one class: round(class_weight * w, 6) per instrument
ClassPlan(strat, cls, insts) ==
    LET s     == SumSeq(ValSeq(insts))
        intra == cap_position_weights([den |-> s, d |-> insts],
                                      strat.position_max_pct)
        class_weight == Max(0, Min(WeightScale, Get(strat.alloc_target, cls, 0)))
    IN  [i \in DOMAIN intra.d |->
            <<intra.d[i][1], RoundHalfEven(class_weight * intra.d[i][2], intra.den)>>]

OrdersOf(class_plan) ==
    [i \in DOMAIN class_plan |->
        [instrument_id |-> class_plan[i][1],
         action        |-> IF class_plan[i][2] > 0 THEN "INCREASE" ELSE "HOLD",
         target_weight |-> class_plan[i][2]]]

\* Faulty variant of PlanClasses: a class without an entry in alloc_target is
\* skipped.
RECURSIVE PlanClasses_DropsUnknown(_, _, _)
PlanClasses_DropsUnknown(strat, by_class, plan) ==
    IF by_class = <<>> THEN plan
    ELSE LET cls   == Head(by_class)[1]
             insts == Head(by_class)[2]
             rest  == Tail(by_class)
         IN  IF insts = <<>> \/ SumSeq(ValSeq(insts)) <= 0
                \/ ~HasKey(strat.alloc_target, cls)
             THEN PlanClasses_DropsUnknown(strat, rest, plan)
             ELSE LET class_plan == ClassPlan(strat, cls, insts)
                  IN  PlanClasses_DropsUnknown(strat, rest,
                         [classes |-> Append(plan.classes, <<cls, class_plan>>),
                          orders  |-> plan.orders \o OrdersOf(class_plan)])

\* Faulty variant of PlanClasses: a class whose confidences sum to 0 or less is
\* planned with every instrument at weight 0.
RECURSIVE PlanClasses_KeepsZeroSum(_, _, _)
PlanClasses_KeepsZeroSum(strat, by_class, plan) ==
    IF by_class = <<>> THEN plan
    ELSE LET cls   == Head(by_class)[1]
             insts == Head(by_class)[2]
             rest  == Tail(by_class)
         IN  IF insts = <<>>
             THEN PlanClasses_KeepsZeroSum(strat, rest, plan)
             ELSE LET class_plan ==
                        IF SumSeq(ValSeq(insts)) <= 0
                        THEN [i \in DOMAIN insts |-> <<insts[i][1], 0>>]
                        ELSE ClassPlan(strat, cls, insts)
                  IN  PlanClasses_KeepsZeroSum(strat, rest,
                         [classes |-> Append(plan.classes, <<cls, class_plan>>),
                          orders  |-> plan.orders \o OrdersOf(class_plan)])

\* The loop over by_class.items() of build_plan
RECURSIVE PlanClasses(_, _, _)
PlanClasses(strat, by_class, plan) ==
    IF by_class = <<>> THEN plan
    ELSE LET cls   == Head(by_class)[1]
             insts == Head(by_class)[2]
             rest  == Tail(by_class)
         IN  IF insts = <<>> \/ SumSeq(ValSeq(insts)) <= 0
             THEN PlanClasses(strat, rest, plan)
             ELSE LET class_plan == ClassPlan(strat, cls, insts)
                  IN  PlanClasses(strat, rest,
                         [classes |-> Append(plan.classes, <<cls, class_plan>>),
                          orders  |-> plan.orders \o OrdersOf(class_plan)])

build_plan(strat, signals) ==
    PlanClasses(strat, GroupByClass(<<>>, signals),
                EmptyPlan)

\* ================================================== Paper Execution Engine
\* interfaces/broker_adapter/paper.py

EmptyPort == [cash_eur |-> 0, positions |-> <<>>, history |-> <<>>]

\* current_nav: the (rounded) cash of the dict plus the sum of its positions
current_nav(p) == p.cash_eur + SumSeq(ValSeq(p.positions))

is_crypto(inst) == inst \in {"BTC", "ETH", "SOL", "ADA", "DOGE"}

\* round(x, 6) of an amount of money: to a whole number of micro-euros
Round6(x) == RoundHalfEven(x, SubPerMicro) * SubPerMicro

\* _FALLBACK_PRICE_MAP, in EUR: the entries of the symbols the engine is run on
\* here (entries with cents, such as AAPL 230.10, are not on the price grid)
FallbackPriceMap ==
    <<<<"BTC", 65000>>, <<"ETH", 3500>>, <<"SOL", 160>>, <<"SAP", 200>>,
      <<"TLT", 100>>, <<"VNQ", 90>>, <<"IPRP", 6>>>>

\* Faulty variant of get_exec_price: no default behind the fallback table, a symbol
\* that is not in it gets the price 0 and is skipped by the loops.
get_exec_price_NoDefault(inst) ==
    IF oracle[inst] > 0 THEN oracle[inst]
    ELSE Get(FallbackPriceMap, inst, 0) * PriceDen

\* get_exec_price: the oracle's price when it is positive, else the fallback
\* table, else 100.0; as a numerator over PriceDen.  oracle[inst] is what
\* latest_price gives: a positive price, a value <= 0, or 0 also for None and
\* for an exception (all three take the same path to the table).
get_exec_price(inst) ==
    IF oracle[inst] > 0 THEN oracle[inst]
    ELSE Get(FallbackPriceMap, inst, 100) * PriceDen

\* Faulty variant of TargetWeights: min where the code takes the max, so that the
\* .get default 0.0 always wins.
RECURSIVE TargetWeights_Min(_, _)
TargetWeights_Min(tw, orders) ==
    IF orders = <<>> THEN tw
    ELSE LET inst == Head(orders).instrument_id
         IN  IF inst = "" THEN TargetWeights_Min(tw, Tail(orders))
             ELSE TargetWeights_Min(
                    Put(tw, inst, Min(Head(orders).target_weight, Get(tw, inst, 0))),
                    Tail(orders))

\* main, lines 110-118: the target weight of each instrument of plan.orders,
\* the largest one when an instrument occurs twice (and never below the
\* .get default 0.0)
RECURSIVE TargetWeights(_, _)
TargetWeights(tw, orders) ==
    IF orders = <<>> THEN tw
    ELSE LET inst == Head(orders).instrument_id
         IN  IF inst = "" THEN TargetWeights(tw, Tail(orders))
             ELSE TargetWeights(
                    Put(tw, inst, Max(Head(orders).target_weight, Get(tw, inst, 0))),
                    Tail(orders))

Execution(inst, price, qtyMicro) ==
    [instrument_id |-> inst, status |-> "FILLED", avg_fill |-> price, qty |-> qtyMicro]

\* Faulty variant of LotQty: every instrument is floored to whole units.
LotQty_AllFloored(inst, num, den, price) ==
    FloorDiv(FloorDiv(FloorDiv(num, den), price), QtyScale) * QtyScale

\* Faulty variant of LotQty: every instrument trades a quantity rounded to 6
\* decimals.
LotQty_AllFractional(inst, num, den, price) == RoundHalfEven(num, den * price)

\* The quantity of an amount num/den sub-units at `price`, in micro-units:
\* round(amount / price, 6) for crypto, math.floor(amount / price) otherwise
LotQty(inst, num, den, price) ==
    IF is_crypto(inst) THEN RoundHalfEven(num, den * price)
    ELSE FloorDiv(FloorDiv(num, den), price * QtyScale) * QtyScale

\* One pass of the Phase 1 loop body (lines 123-153) on the state
\* st = [cash, positions, executions, limited]
LiquidateOne(st, inst) ==
    LET cur_mv == Get(st.positions, inst, 0)
        price  == get_exec_price(inst)
        qty    == LotQty(inst, cur_mv, 1, price)
        exec_value == qty * price
    IN  IF cur_mv <= 0 \/ price <= 0 \/ qty <= 0 THEN st
        ELSE [st EXCEPT !.cash = @ + exec_value,
                        !.positions = Put(@, inst, Max(0, cur_mv - exec_value)),
                        !.executions = Append(@, Execution(inst, price, -qty))]

RECURSIVE Phase1Loop(_, _, _)
Phase1Loop(st, keys, tw) ==
    IF keys = <<>> THEN st
    ELSE Phase1Loop(IF HasKey(tw, Head(keys)) THEN st ELSE LiquidateOne(st, Head(keys)),
                    Tail(keys), tw)

\* One pass of the Phase 2 loop body (lines 163-228).  The desired value
\* nav * tw is the exact rational (nav * n) / d with n / d = tw in lowest terms;
\* delta and the amounts to trade are numerators over d.
RebalanceOne(st, inst, tw, navNow) ==
    LET price == get_exec_price(inst)
        g == GCD(tw, WeightScale)
        n == tw \div g
        d == WeightScale \div g
        cur_mv == Get(st.positions, inst, 0)
        delta  == navNow * n - d * cur_mv
        buy_amt  == Min(delta, st.cash * d)
        sell_amt == Min(-delta, cur_mv * d)
        bqty == LotQty(inst, buy_amt, d, price)
        sqty == LotQty(inst, sell_amt, d, price)
        cut  == IF delta > 0 THEN delta > st.cash * d ELSE -delta > cur_mv * d
        lim  == IF cut THEN st.limited \cup {inst} ELSE st.limited
    IN  IF price <= 0 THEN st
        ELSE IF Abs(delta) < SubPerMicro * d THEN st
        ELSE IF delta > 0 THEN
            IF buy_amt <= 0 THEN [st EXCEPT !.limited = lim]
            ELSE IF ~is_crypto(inst) /\ bqty <= 0 THEN [st EXCEPT !.limited = lim]
            ELSE [st EXCEPT !.positions = Put(@, inst, cur_mv + bqty * price),
                            !.cash = @ - bqty * price,
                            !.executions = Append(@, Execution(inst, price, bqty)),
                            !.limited = lim]
        ELSE
            IF sell_amt <= 0 THEN [st EXCEPT !.limited = lim]
            ELSE IF ~is_crypto(inst) /\ sqty <= 0 THEN [st EXCEPT !.limited = lim]
            ELSE [st EXCEPT !.positions = Put(@, inst, cur_mv - sqty * price),
                            !.cash = @ + sqty * price,
                            !.executions = Append(@, Execution(inst, price, -sqty)),
                            !.limited = lim]

RECURSIVE Phase2Loop(_, _, _)
Phase2Loop(st, tw, navNow) ==
    IF tw = <<>> THEN st
    ELSE Phase2Loop(RebalanceOne(st, Head(tw)[1], Head(tw)[2], navNow), Tail(tw), navNow)

\* lines 230-232: values below 1e-6 become 0.0, only positive values are kept
KeepPosition(k, v) == (IF Abs(v) < SubPerMicro THEN 0 ELSE v) > 0
PrunePositions(pos) == Filter(KeepPosition, pos)

\* Faulty variant of FinalPort: the history is started anew with the entry of this
\* cycle.
FinalPort_ResetsHistory(p, pos, c) ==
    LET q == [p EXCEPT !.positions = PrunePositions(pos), !.cash_eur = Round6(c)]
    IN  [q EXCEPT !.history = <<[event |-> "rebalance", nav |-> Round6(current_nav(q))]>>]

\* lines 234-242: the dict that is written to the Portfolio file
FinalPort(p, pos, c) ==
    LET q == [p EXCEPT !.positions = PrunePositions(pos), !.cash_eur = Round6(c)]
    IN  [q EXCEPT !.history =
            Append(@, [event |-> "rebalance", nav |-> Round6(current_nav(q))])]

EngineInsts == {"BTC", "SAP", "IPRP"}

\* The second process before it starts: the locals of main, and `before`, the
\* Portfolio it read
PeerIdle ==
    [pc |-> "idle", port |-> EmptyPort, positions |-> <<>>, cash |-> 0,
     target_w |-> <<>>, nav |-> 0, executions |-> <<>>, logged |-> 0,
     before |-> EmptyPort]

\* ---------------------------------------------------------------- the process
EngineIdle ==
    /\ pc = "idle"
    /\ peer = PeerIdle
    /\ port = EmptyPort
    /\ positions = <<>>
    /\ cash = 0
    /\ target_w = <<>>
    /\ nav = 0
    /\ executions = <<>>
    /\ logged = 0
    /\ limited = {}
    /\ failedAt = ""

ResetLocals ==
    /\ port' = EmptyPort
    /\ positions' = <<>>
    /\ cash' = 0
    /\ target_w' = <<>>
    /\ nav' = 0
    /\ executions' = <<>>
    /\ logged' = 0
    /\ limited' = {}

\* lines 93-118: without both files the engine prints a message and returns; a
\* file that does not parse raises from json.load; else the inputs are loaded
PaperStart ==
    /\ pc = "idle"
    /\ portBefore' = portFile
    /\ IF ~portFile.exists \/ ~planFile.exists
       THEN /\ pc' = "returned"
            /\ UNCHANGED <<lvars, failedAt>>
       ELSE IF ~portFile.valid \/ ~planFile.valid
       THEN /\ pc' = "failed"
            /\ failedAt' = "load"
            /\ UNCHANGED lvars
       ELSE /\ pc' = "phase1"
            /\ port' = portFile.content
            /\ positions' = portFile.content.positions
            /\ cash' = portFile.content.cash_eur
            /\ target_w' = TargetWeights(<<>>, planFile.content.orders)
            /\ UNCHANGED <<nav, executions, logged, limited, failedAt>>
    /\ UNCHANGED <<bvars, fvars, vvars, pvars>>

CycleState == [cash |-> cash, positions |-> positions,
               executions |-> executions, limited |-> limited]

\* Faulty variant of Phase1: the dict is also written to the Portfolio file as soon as
\* the off-plan holdings are sold.
Phase1_Persisting ==
    /\ pc = "phase1"
    /\ LET st == Phase1Loop(CycleState, KeySeq(positions), target_w)
       IN  /\ cash' = st.cash
           /\ positions' = st.positions
           /\ executions' = st.executions
           /\ port' = [port EXCEPT !.positions = st.positions,
                                   !.cash_eur = Round6(st.cash)]
           /\ nav' = current_nav(port')
           /\ portFile' = File(port')
    /\ pc' = "phase2"
    /\ UNCHANGED <<vvars, pvars, bvars, execLog, ovars, target_w, logged, limited,
                   portBefore, failedAt>>

\* lines 120-158: Phase 1, then the NAV of the dict with the rounded cash
Phase1 ==
    /\ pc = "phase1"
    /\ LET st == Phase1Loop(CycleState, KeySeq(positions), target_w)
       IN  /\ cash' = st.cash
           /\ positions' = st.positions
           /\ executions' = st.executions
           /\ port' = [port EXCEPT !.positions = st.positions,
                                   !.cash_eur = Round6(st.cash)]
           /\ nav' = current_nav(port')
    /\ pc' = "phase2"
    /\ UNCHANGED <<vvars, pvars, bvars, fvars, target_w, logged, limited, portBefore, failedAt>>

\* lines 160-228: Phase 2
Phase2 ==
    /\ pc = "phase2"
    /\ LET st == Phase2Loop(CycleState, target_w, nav)
       IN  /\ cash' = st.cash
           /\ positions' = st.positions
           /\ executions' = st.executions
           /\ limited' = st.limited
    /\ pc' = "phase3"
    /\ UNCHANGED <<vvars, pvars, bvars, fvars, port, target_w, nav, logged, portBefore, failedAt>>

\* lines 230-243: Phase 3 up to save_json
SavePortfolio ==
    /\ pc = "phase3"
    /\ port' = FinalPort(port, positions, cash)
    /\ positions' = port'.positions
    /\ portFile' = File(port')
    /\ pc' = "log"
    /\ UNCHANGED <<vvars, pvars, bvars, execLog, ovars, cash, target_w, nav, executions, logged,
                   limited, portBefore, failedAt>>

\* lines 246-249: one Execution Record is appended to the log
AppendLog ==
    /\ pc = "log"
    /\ logged < Len(executions)
    /\ execLog' = Append(execLog, executions[logged + 1])
    /\ logged' = logged + 1
    /\ UNCHANGED <<vvars, pvars, bvars, portFile, ovars, pc, port, positions, cash, target_w, nav,
                   executions, limited, portBefore, failedAt>>

\* line 251: the summary is printed and main returns
PaperDone ==
    /\ pc = "log"
    /\ logged = Len(executions)
    /\ pc' = "done"
    /\ UNCHANGED <<vvars, pvars, bvars, fvars, lvars, portBefore, failedAt>>

\* The process dies (an I/O error, a kill) between two steps: its memory is
\* gone, the files stay as they are.
Crash ==
    /\ pc \in {"phase1", "phase2", "phase3", "log"}
    /\ pc' = "failed"
    /\ failedAt' = pc
    /\ ResetLocals
    /\ UNCHANGED <<vvars, pvars, bvars, fvars, portBefore>>

\* ------------------------------------------------- a second engine process
\* `python -m interfaces.broker_adapter.paper` started while another run of it
\* is under way: the same main on the same files, its locals in `peer`.
PeerOthers == <<bvars, oracle, pc, lvars, portBefore, failedAt, vvars, pvars>>
PeerState == [cash |-> peer.cash, positions |-> peer.positions,
              executions |-> peer.executions, limited |-> {}]

\* lines 93-118
PeerStart ==
    /\ peer.pc = "idle"
    /\ peer' = IF ~portFile.exists \/ ~planFile.exists
               THEN [peer EXCEPT !.pc = "returned"]
               ELSE IF ~portFile.valid \/ ~planFile.valid
               THEN [peer EXCEPT !.pc = "failed"]
               ELSE [peer EXCEPT !.pc = "phase1",
                                 !.port = portFile.content,
                                 !.positions = portFile.content.positions,
                                 !.cash = portFile.content.cash_eur,
                                 !.target_w = TargetWeights(<<>>, planFile.content.orders),
                                 !.before = portFile.content]
    /\ UNCHANGED <<PeerOthers, portFile, execLog>>

\* lines 120-158
PeerPhase1 ==
    /\ peer.pc = "phase1"
    /\ LET st == Phase1Loop(PeerState, KeySeq(peer.positions), peer.target_w)
           p1 == [peer.port EXCEPT !.positions = st.positions,
                                   !.cash_eur = Round6(st.cash)]
       IN  peer' = [peer EXCEPT !.pc = "phase2",
                                !.cash = st.cash,
                                !.positions = st.positions,
                                !.executions = st.executions,
                                !.port = p1,
                                !.nav = current_nav(p1)]
    /\ UNCHANGED <<PeerOthers, portFile, execLog>>

\* lines 160-228
PeerPhase2 ==
    /\ peer.pc = "phase2"
    /\ LET st == Phase2Loop(PeerState, peer.target_w, peer.nav)
       IN  peer' = [peer EXCEPT !.pc = "phase3",
                                !.cash = st.cash,
                                !.positions = st.positions,
                                !.executions = st.executions]
    /\ UNCHANGED <<PeerOthers, portFile, execLog>>

\* lines 230-243
PeerSave ==
    /\ peer.pc = "phase3"
    /\ LET p3 == FinalPort(peer.port, peer.positions, peer.cash)
       IN  /\ peer' = [peer EXCEPT !.pc = "log", !.port = p3,
                                   !.positions = p3.positions]
           /\ portFile' = File(p3)
    /\ UNCHANGED <<PeerOthers, execLog>>

\* lines 246-249
PeerAppendLog ==
    /\ peer.pc = "log"
    /\ peer.logged < Len(peer.executions)
    /\ execLog' = Append(execLog, peer.executions[peer.logged + 1])
    /\ peer' = [peer EXCEPT !.logged = @ + 1]
    /\ UNCHANGED <<PeerOthers, portFile>>

\* line 251
PeerDone ==
    /\ peer.pc = "log"
    /\ peer.logged = Len(peer.executions)
    /\ peer' = [peer EXCEPT !.pc = "done"]
    /\ UNCHANGED <<PeerOthers, portFile, execLog>>

\* The exit status of the engine's process: 0 when main returns (after a cycle,
\* or after the message of line 96), 1 when an exception ended it
PaperExitStatus == IF pc = "failed" THEN 1 ELSE 0

\* ========================================================== Plan Validator
\* run_validate.py

Finding(kind, cls, inst, w) == [kind |-> kind, cls |-> cls, inst |-> inst, w |-> w]
Err(kind) == Finding(kind, "", "", 0)

\* sorted(violators, key=lambda x: -x[2]): a stable sort by descending weight
RECURSIVE InsertDesc(_, _)
InsertDesc(sorted, x) ==
    IF sorted = <<>> THEN <<x>>
    ELSE IF Head(sorted).w >= x.w THEN <<Head(sorted)>> \o InsertDesc(Tail(sorted), x)
    ELSE <<x>> \o sorted

\* Faulty variant of SortDesc: the violators are kept in the order of the plan.
SortDesc_PlanOrder(sorted, xs) == sorted \o xs

RECURSIVE SortDesc(_, _)
SortDesc(sorted, xs) ==
    IF xs = <<>> THEN sorted ELSE SortDesc(InsertDesc(sorted, Head(xs)), Tail(xs))

\* Faulty variant of Violators: an instrument exactly at the cap is reported too.
RECURSIVE Violators_AtOrAbove(_, _)
Violators_AtOrAbove(classes, pos_max) ==
    IF classes = <<>> THEN <<>>
    ELSE LET cls   == Head(classes)[1]
             items == Head(classes)[2]
             RECURSIVE Of(_)
             Of(its) ==
                IF its = <<>> THEN <<>>
                ELSE (IF Head(its)[2] >= pos_max
                      THEN <<Finding("position_cap", cls, Head(its)[1], Head(its)[2])>>
                      ELSE <<>>) \o Of(Tail(its))
         IN  Of(items) \o Violators_AtOrAbove(Tail(classes), pos_max)

\* lines 115-119: the instruments above the cap, in the order of the plan
RECURSIVE Violators(_, _)
Violators(classes, pos_max) ==
    IF classes = <<>> THEN <<>>
    ELSE LET cls   == Head(classes)[1]
             items == Head(classes)[2]
             RECURSIVE Of(_)
             Of(its) ==
                IF its = <<>> THEN <<>>
                ELSE (IF Head(its)[2] > pos_max
                      THEN <<Finding("position_cap", cls, Head(its)[1], Head(its)[2])>>
                      ELSE <<>>) \o Of(Tail(its))
         IN  Of(items) \o Violators(Tail(classes), pos_max)

\* Faulty variant of BandErrors: a policy class that is not in the plan is not
\* compared with its band.
RECURSIVE BandErrors_PresentOnly(_, _, _)
BandErrors_PresentOnly(alloc, class_sums, bands) ==
    IF alloc = <<>> THEN <<>>
    ELSE LET cls    == Head(alloc)[1]
             target == Head(alloc)[2]
             actual == Get(class_sums, cls, 0)
         IN  (IF HasKey(class_sums, cls)
                 /\ (actual < (target - bands) - 1 \/ actual > (target + bands) + 1)
              THEN <<Finding("band", cls, "", actual)>> ELSE <<>>)
             \o BandErrors_PresentOnly(Tail(alloc), class_sums, bands)

\* lines 96-105: one band error per policy class whose plan sum (0.0 when the
\* class is not in the plan) is outside [target - bands, target + bands]
RECURSIVE BandErrors(_, _, _)
BandErrors(alloc, class_sums, bands) ==
    IF alloc = <<>> THEN <<>>
    ELSE LET cls    == Head(alloc)[1]
             target == Head(alloc)[2]
             actual == Get(class_sums, cls, 0)
         IN  (IF actual < (target - bands) - 1 \/ actual > (target + bands) + 1
              THEN <<Finding("band", cls, "", actual)>> ELSE <<>>)
             \o BandErrors(Tail(alloc), class_sums, bands)

\* Faulty variant of MissingClasses: the set difference is taken the other way.
MissingClasses_Swapped(alloc_target, classes) == Keys(classes) \ Keys(alloc_target)

\* line 84: the policy classes that the plan does not have
MissingClasses(alloc_target, classes) == Keys(alloc_target) \ Keys(classes)

\* Faulty variant of TotalWeightErrors: the tolerance is EPS (1e-6), not 1e-3.
TotalWeightErrors_Eps(total_weight) ==
    IF Abs(total_weight - WeightScale) > 1
    THEN <<Finding("total_weight", "", "", total_weight)>> ELSE <<>>

\* lines 108-110: an error when the total differs from 1.0 by more than 1e-3
TotalWeightErrors(total_weight) ==
    IF Abs(total_weight - WeightScale) > WeightScale \div 1000
    THEN <<Finding("total_weight", "", "", total_weight)>> ELSE <<>>

\* main of run_validate.py up to the report record `rec`
Validate(stratF, planF) ==
    LET strat == IF Readable(stratF) THEN stratF.content
                 ELSE Strat(<<>>, 0, WeightScale)
        alloc_target == strat.alloc_target
        s_alloc == SumSeq(ValSeq(alloc_target))
        classes == IF Readable(planF) THEN planF.content.classes ELSE <<>>
        unknown_classes == Keys(classes) \ Keys(alloc_target)
        missing_classes == MissingClasses(alloc_target, classes)
        class_sums == [i \in DOMAIN classes |->
                          <<classes[i][1], SumSeq(ValSeq(classes[i][2]))>>]
        total_weight == SumSeq(ValSeq(class_sums))
        errors ==
            (IF Readable(stratF) THEN <<>> ELSE <<Err("strategy_unreadable")>>)
            \o (IF alloc_target = <<>> THEN <<Err("alloc_target_missing")>>
                ELSE IF s_alloc <= 0 THEN <<Err("alloc_sum_nonpositive")>>
                ELSE <<>>)
            \o (IF ~planF.exists THEN <<Err("plan_missing")>>
                ELSE IF ~planF.valid THEN <<Err("plan_unreadable")>>
                ELSE <<>>)
            \o (IF classes = <<>> THEN <<Err("plan_no_classes")>> ELSE <<>>)
            \o BandErrors(alloc_target, class_sums, strat.bands)
            \o TotalWeightErrors(total_weight)
            \o SortDesc(<<>>, Violators(classes, strat.position_max_pct))
        warnings ==
            (IF alloc_target # <<>> /\ s_alloc > 0 /\ Abs(s_alloc - WeightScale) > 1
             THEN <<[kind |-> "alloc_sum", classes |-> {}]>> ELSE <<>>)
            \o (IF unknown_classes # {}
                THEN <<[kind |-> "unknown_classes", classes |-> unknown_classes]>>
                ELSE <<>>)
            \o (IF missing_classes # {}
                THEN <<[kind |-> "missing_classes", classes |-> missing_classes]>>
                ELSE <<>>)
    IN  [status       |-> IF errors = <<>> THEN "OK" ELSE "FAIL",
         class_sums   |-> class_sums,
         total_weight |-> total_weight,
         warnings     |-> warnings,
         errors       |-> errors]

EmptyReport == [status |-> "", class_sums |-> <<>>, total_weight |-> 0,
                warnings |-> <<>>, errors |-> <<>>]

\* Faulty variant of ExitStatus: the process always exits 0.
ExitStatus_AlwaysZero(rec) == 0

\* sys.exit(0 if status == "OK" else 1)
ExitStatus(rec) == IF rec.status = "OK" THEN 0 ELSE 1

\* lines 167-188: the report is written and appended, then the process exits
WriteReport ==
    /\ valExit = -1
    /\ LET rec == Validate(strategy, planFile)
       IN  /\ valJson' = File(rec)
           /\ valLog' = Append(valLog, rec)
           /\ valExit' = ExitStatus(rec)

RunValidate ==
    /\ WriteReport
    /\ UNCHANGED <<bvars, evars, pvars>>

ValidatorIdle ==
    /\ valJson = NoFile(EmptyReport)
    /\ valLog = <<>>
    /\ valExit = -1

PipelineIdle ==
    /\ step = 0
    /\ pipe = "off"
    /\ trace = <<>>


\* load_signals: the four producer files in a fixed order; a missing or
\* unparsable file contributes nothing
SignalPaths == <<"equities", "crypto", "fixed_income", "reits">>

RECURSIVE LoadFrom(_, _)
LoadFrom(files, paths) ==
    IF paths = <<>> THEN <<>>
    ELSE (IF Readable(files[Head(paths)]) THEN files[Head(paths)].content ELSE <<>>)
         \o LoadFrom(files, Tail(paths))

load_signals(files) == LoadFrom(files, SignalPaths)

\* main of orchestrator/main.py: read the strategy (FileNotFoundError when it
\* is missing: nothing is written), load the signals, build and write the plan
OrchestratorFails(strat) == ~Readable(strat)

WritePlan ==
    planFile' = File(build_plan(strategy.content, load_signals(sigFiles)))

OrchestratorMain ==
    /\ ~OrchestratorFails(strategy)
    /\ WritePlan
    /\ UNCHANGED <<strategy, sigFiles, evars, vvars, pvars>>

\* ================================================================ Pipeline
\* run_all.py

\* Faulty variant of Stages: the validator is run before the engine.
Stages_ValidatorFirst ==
    <<"agents.equities.agent", "agents.crypto.agent", "agents.fixed_income.agent",
      "agents.reits.agent", "orchestrator.main", "run_validate.py",
      "interfaces.broker_adapter.paper", "interfaces.reporting.report_html">>

\* main: the modules and scripts in the order they are run
Stages ==
    <<"agents.equities.agent", "agents.crypto.agent", "agents.fixed_income.agent",
      "agents.reits.agent", "orchestrator.main", "interfaces.broker_adapter.paper",
      "run_validate.py", "interfaces.reporting.report_html">>

CurrentStage == IF pipe = "running" THEN Stages[step] ELSE ""

\* run / run_script: subprocess.run(..., check=True) raises on a non-zero exit
\* status, which ends main; else main goes on to the next stage
EndStage(status) ==
    /\ trace' = Append(trace, [stage |-> CurrentStage, status |-> status])
    /\ IF status # 0 THEN pipe' = "aborted" /\ step' = step
       ELSE IF step = Len(Stages) THEN pipe' = "done" /\ step' = step
       ELSE pipe' = pipe /\ step' = step + 1

AgentClass(stage) ==
    CASE stage = "agents.equities.agent" -> "equities"
      [] stage = "agents.crypto.agent" -> "crypto"
      [] stage = "agents.fixed_income.agent" -> "fixed_income"
      [] stage = "agents.reits.agent" -> "reits"
      [] OTHER -> ""

\* What an agent may publish to its signal file (the scoring is not modelled).
\* Confidences are in fifths here: 4 is 0.8 and 3 is 0.6.
AgentOutputs ==
    [equities     |-> {<<>>, <<Sig("SAP", 0)>>, <<Sig("SAP", 1)>>, <<Sig("AAPL", 4)>>},
     crypto       |-> {<<>>, <<Sig("BTC", 3)>>},
     fixed_income |-> {<<>>},
     reits        |-> {<<>>, <<Sig("IPRP", 1)>>}]

\* An agent publishes its signals and exits 0
StageAgent ==
    /\ AgentClass(CurrentStage) # ""
    /\ \E out \in AgentOutputs[AgentClass(CurrentStage)] :
          sigFiles' = [sigFiles EXCEPT ![AgentClass(CurrentStage)] = File(out)]
    /\ EndStage(0)
    /\ UNCHANGED <<strategy, planFile, evars, vvars>>

\* An agent dies with an exception before it publishes
StageAgentFails ==
    /\ AgentClass(CurrentStage) # ""
    /\ EndStage(1)
    /\ UNCHANGED <<bvars, evars, vvars>>

StageOrchestrator ==
    /\ CurrentStage = "orchestrator.main"
    /\ IF OrchestratorFails(strategy)
       THEN EndStage(1) /\ UNCHANGED planFile
       ELSE WritePlan /\ EndStage(0)
    /\ UNCHANGED <<strategy, sigFiles, evars, vvars>>

StagePaperStart ==
    /\ CurrentStage = "interfaces.broker_adapter.paper"
    /\ PaperStart

\* The engine process has ended: status 0 after a return, 1 after an exception
StagePaperExit ==
    /\ CurrentStage = "interfaces.broker_adapter.paper"
    /\ pc \in {"done", "returned", "failed"}
    /\ EndStage(PaperExitStatus)
    /\ UNCHANGED <<bvars, evars, vvars>>

StageValidate ==
    /\ CurrentStage = "run_validate.py"
    /\ WriteReport
    /\ EndStage(valExit')
    /\ UNCHANGED <<bvars, evars>>

StageReport ==
    /\ CurrentStage = "interfaces.reporting.report_html"
    /\ \E status \in {0, 1} : EndStage(status)
    /\ UNCHANGED <<bvars, evars, vvars>>

\* ------------------------------------------------- inputs of the Plan Builder
Absent == 0 - 1
ConfOrAbsent == {Absent} \cup (0 .. MaxConf)
OneOrAbsent == {Absent, 1}

\* the signals of the instruments of `insts` that are present in `conf`
RECURSIVE SignalList(_, _)
SignalList(insts, conf) ==
    IF insts = <<>> THEN <<>>
    ELSE (IF conf[Head(insts)] = Absent THEN <<>>
          ELSE <<Sig(Head(insts), conf[Head(insts)])>>)
         \o SignalList(Tail(insts), conf)

EquityFiles ==
    { File(SignalList(<<"AAPL", "MSFT", "NVDA", "GOOGL", "AMZN">>,
                 [AAPL |-> a, MSFT |-> m, NVDA |-> n, GOOGL |-> g, AMZN |-> z])) :
        a \in ConfOrAbsent, m \in ConfOrAbsent,
        n \in OneOrAbsent, g \in OneOrAbsent, z \in OneOrAbsent }

CryptoFiles ==
    { File(SignalList(<<"BTC", "ETH">>, [BTC |-> b, ETH |-> e])) :
        b \in ConfOrAbsent, e \in OneOrAbsent }
    \cup {NoFile(<<>>), File(<<Sig("BTC", 1), Sig("ETH", 1), Sig("BTC", MaxConf)>>)}

FixedIncomeFiles == {NoFile(<<>>), File(<<Sig("TLT", 1)>>)}
ReitFiles == {Corrupt(<<>>), File(<<Sig("VNQ", 1)>>)}

SigFileSets ==
    [equities : EquityFiles, crypto : CryptoFiles,
     fixed_income : FixedIncomeFiles, reits : ReitFiles]

AllocTargets ==
    { <<<<"equities", 600000>>, <<"crypto", 400000>>>>,
      <<<<"equities", 400000>>, <<"crypto", 600000>>>>,
      <<<<"equities", 1000000>>>>,
      <<<<"equities", 1200000>>, <<"crypto", -200000>>>>,
      <<<<"equities", 500000>>, <<"crypto", 300000>>>> }

PosMaxSet == {0, 100000, 350000, 1000000}

Strategies == { File(Strat(a, 50000, pm)) : a \in AllocTargets, pm \in PosMaxSet }

\* ------------------------------------------- specification: the Plan Builder
InitPlan ==
    /\ strategy \in Strategies
    /\ sigFiles \in SigFileSets
    /\ planFile = NoFile(EmptyPlan)
    /\ portFile = NoFile(EmptyPort)
    /\ execLog = <<>>
    /\ oracle = [i \in EngineInsts |-> 0]
    /\ portBefore = portFile
    /\ EngineIdle
    /\ ValidatorIdle
    /\ PipelineIdle

NextPlan == OrchestratorMain

SpecPlan == InitPlan /\ [][NextPlan]_vars

\* ------------------------------------------------------ inputs of the engine
Oracles == [BTC : {0, 1, 6}, SAP : {6}, IPRP : {0, 5}]

RECURSIVE PositionsDict(_, _)
PositionsDict(insts, val) ==
    IF insts = <<>> THEN <<>>
    ELSE (IF val[Head(insts)] = Absent THEN <<>>
          ELSE <<<<Head(insts), val[Head(insts)]>>>>)
         \o PositionsDict(Tail(insts), val)

CashSet == {0, 3, 11 * SubPerEur}

Portfolios ==
    { [cash_eur |-> c,
       positions |-> PositionsDict(<<"BTC", "SAP", "IPRP">>,
                                   [BTC |-> b, SAP |-> s, IPRP |-> r]),
       history |-> <<>>] :
        c \in CashSet,
        b \in {Absent, 3, 5 * SubPerEur + 1},
        s \in {Absent, 10 * SubPerEur},
        r \in {Absent, 7 * SubPerEur} }

TwSet == {0, 500000, 1000000}

Order(inst, tw) ==
    [instrument_id |-> inst,
     action        |-> IF tw > 0 THEN "INCREASE" ELSE "HOLD",
     target_weight |-> tw]

OrderLists ==
    UNION { [1 .. n -> { Order(i, w) : i \in EngineInsts, w \in TwSet }] :
            n \in 0 .. MaxOrders }

EnginePlans == { [classes |-> <<>>, orders |-> o] : o \in OrderLists }

\* ------------------------------------- specification: one cycle of the engine
InitEngine ==
    /\ strategy = NoFile(Strat(<<>>, 0, 0))
    /\ sigFiles = [p \in Range(SignalPaths) |-> NoFile(<<>>)]
    /\ \/ /\ portFile \in { File(p) : p \in Portfolios }
          /\ planFile \in { File(p) : p \in EnginePlans }
       \/ /\ portFile \in {NoFile(EmptyPort), Corrupt(EmptyPort), File(EmptyPort)}
          /\ planFile \in {NoFile(EmptyPlan), Corrupt(EmptyPlan), File(EmptyPlan)}
    /\ execLog = <<>>
    /\ oracle \in Oracles
    /\ portBefore = portFile
    /\ EngineIdle
    /\ ValidatorIdle
    /\ PipelineIdle

NextEngine ==
    \/ PaperStart
    \/ Phase1
    \/ Phase2
    \/ SavePortfolio
    \/ AppendLog
    \/ PaperDone
    \/ Crash

SpecEngine == InitEngine /\ [][NextEngine]_vars

\* --------------------------------------------------- inputs of the validator
ValAllocTargets ==
    AllocTargets \cup
    { <<>>,
      <<<<"equities", 500000>>, <<"crypto", 300000>>, <<"reits", 200000>>>>,
      <<<<"equities", 0>>, <<"crypto", -100000>>>> }

ValStrategies ==
    { File(Strat(a, b, pm)) : a \in ValAllocTargets, b \in {0, 100000},
                              pm \in {350000, 1000000} }
    \cup {NoFile(Strat(<<>>, 0, 0)), Corrupt(Strat(<<>>, 0, 0))}

ClassWeights == {100000, 300000, 400000, 500000, 600000}

\* with equities + crypto = 0.9: a total of 1.0, one within 1e-3 of 1.0 and one
\* beyond it
ReitWeights == {100000, 100500, 102000}

\* the classes dict of a plan: equities with up to two instruments, crypto and
\* reits with up to one
ValClasses ==
    { e \o c \o r :
        e \in {<<>>} \cup { <<<<"equities", <<<<"AAPL", w>>>>>>>> : w \in ClassWeights }
              \cup { <<<<"equities", <<<<"AAPL", w>>, <<"MSFT", v>>>>>>>> :
                       w \in {100000, 300000}, v \in {300000, 400000} },
        c \in {<<>>} \cup { <<<<"crypto", <<<<"BTC", w>>>>>>>> : w \in ClassWeights },
        r \in {<<>>} \cup { <<<<"reits", <<<<"VNQ", w>>>>>>>> : w \in ReitWeights } }

ValPlans ==
    { File([classes |-> c, orders |-> <<>>]) : c \in ValClasses }
    \cup {NoFile(EmptyPlan), Corrupt(EmptyPlan)}

\* --------------------------------------------- specification: the validator
InitValidate ==
    /\ strategy \in ValStrategies
    /\ sigFiles = [p \in Range(SignalPaths) |-> NoFile(<<>>)]
    /\ planFile \in ValPlans
    /\ portFile = NoFile(EmptyPort)
    /\ execLog = <<>>
    /\ oracle = [i \in EngineInsts |-> 0]
    /\ portBefore = portFile
    /\ EngineIdle
    /\ ValidatorIdle
    /\ PipelineIdle

NextValidate == RunValidate

SpecValidate == InitValidate /\ [][NextValidate]_vars

\* ------------------------------- specification: cycle after cycle of the engine
\* The engine is started again once a run of it has ended (`python -m
\* interfaces.broker_adapter.paper`): a new process, the files as they are.
PaperAgain ==
    /\ pc \in {"done", "returned", "failed"}
    /\ Len(portFile.content.history) < MaxHistory
    /\ pc' = "idle"
    /\ failedAt' = ""
    /\ ResetLocals
    /\ UNCHANGED <<vvars, pvars, bvars, fvars, portBefore>>

CyclePlans ==
    { [classes |-> <<>>, orders |-> o] :
        o \in { <<>>, <<Order("BTC", 500000)>>, <<Order("SAP", 1000000)>>,
                <<Order("BTC", 500000), Order("SAP", 500000)>> } }

\* Between two runs of the engine a run of the builder writes another plan
PlanReplaced ==
    /\ pc = "idle"
    /\ \E p \in CyclePlans : planFile' = File(p)
    /\ planFile' # planFile
    /\ UNCHANGED <<strategy, sigFiles, evars, vvars, pvars>>

CyclePortfolios ==
    { [cash_eur |-> c,
       positions |-> PositionsDict(<<"BTC", "SAP">>, [BTC |-> b, SAP |-> s]),
       history |-> h] :
        c \in {0, 11 * SubPerEur},
        b \in {Absent, 5 * SubPerEur + 1},
        s \in {Absent, 10 * SubPerEur},
        h \in {<<>>, <<[event |-> "deposit", nav |-> 11 * SubPerEur]>>} }

InitCycles ==
    /\ strategy = NoFile(Strat(<<>>, 0, 0))
    /\ sigFiles = [p \in Range(SignalPaths) |-> NoFile(<<>>)]
    /\ portFile \in { File(p) : p \in CyclePortfolios }
    /\ planFile \in { File(p) : p \in CyclePlans } \cup {NoFile(EmptyPlan)}
    /\ execLog = <<>>
    /\ oracle \in [BTC : {1, 6}, SAP : {6}, IPRP : {0}]
    /\ portBefore = portFile
    /\ EngineIdle
    /\ ValidatorIdle
    /\ PipelineIdle

NextCycles ==
    \/ PaperStart
    \/ Phase1
    \/ Phase2
    \/ SavePortfolio
    \/ AppendLog
    \/ PaperDone
    \/ Crash
    \/ PaperAgain
    \/ PlanReplaced

SpecCycles == InitCycles /\ [][NextCycles]_vars

\* --------------------------- specification: one cycle on amounts of Scenario C
\* Cash of up to 1000 EUR, an integer-lot instrument (AAPL) priced by the
\* oracle at 100, 30 or 7 EUR, all or nothing of the NAV as its target.
ScenarioCPortfolios ==
    { [cash_eur |-> c * SubPerEur, positions |-> pos, history |-> <<>>] :
        c \in {0, 100, 950, 1000},
        pos \in { <<>>, <<<<"SAP", 10 * SubPerEur>>>>, <<<<"AAPL", 50 * SubPerEur>>>> } }

ScenarioCPlans ==
    { [classes |-> <<>>, orders |-> o] :
        o \in { <<>>, <<Order("AAPL", WeightScale)>>, <<Order("AAPL", 0)>>,
                <<Order("AAPL", WeightScale), Order("SAP", 0)>> } }

InitScenarioC ==
    /\ strategy = NoFile(Strat(<<>>, 0, 0))
    /\ sigFiles = [p \in Range(SignalPaths) |-> NoFile(<<>>)]
    /\ portFile \in { File(p) : p \in ScenarioCPortfolios }
    /\ planFile \in { File(p) : p \in ScenarioCPlans }
    /\ execLog = <<>>
    /\ oracle \in [AAPL : {100 * PriceDen, 30 * PriceDen, 7 * PriceDen}, SAP : {6}]
    /\ portBefore = portFile
    /\ EngineIdle
    /\ ValidatorIdle
    /\ PipelineIdle

SpecScenarioC == InitScenarioC /\ [][NextEngine]_vars

\* ------------ specification: the engine run again on the same plan and prices
NextRepeat ==
    \/ PaperStart
    \/ Phase1
    \/ Phase2
    \/ SavePortfolio
    \/ AppendLog
    \/ PaperDone
    \/ Crash
    \/ PaperAgain

SpecRepeat == InitCycles /\ [][NextRepeat]_vars

\* ------------------- specification: two engine processes on the same files
ConcurrentPortfolios ==
    { [cash_eur |-> c,
       positions |-> PositionsDict(<<"BTC", "SAP">>, [BTC |-> b, SAP |-> s]),
       history |-> <<>>] :
        c \in {0, 11 * SubPerEur},
        b \in {Absent, 5 * SubPerEur + 1},
        s \in {Absent, 10 * SubPerEur} }

InitConcurrent ==
    /\ strategy = NoFile(Strat(<<>>, 0, 0))
    /\ sigFiles = [p \in Range(SignalPaths) |-> NoFile(<<>>)]
    /\ portFile \in { File(p) : p \in ConcurrentPortfolios }
    /\ planFile \in { File(p) : p \in CyclePlans }
    /\ execLog = <<>>
    /\ oracle \in [BTC : {1, 6}, SAP : {6}, IPRP : {0}]
    /\ portBefore = portFile
    /\ EngineIdle
    /\ ValidatorIdle
    /\ PipelineIdle

NextConcurrent ==
    \/ PaperStart
    \/ Phase1
    \/ Phase2
    \/ SavePortfolio
    \/ AppendLog
    \/ PaperDone
    \/ PeerStart
    \/ PeerPhase1
    \/ PeerPhase2
    \/ PeerSave
    \/ PeerAppendLog
    \/ PeerDone

SpecConcurrent == InitConcurrent /\ [][NextConcurrent]_vars

\* ------------------- specification: one cycle with symbols the oracle fails on
\* SOL (fractional) and SAP are in the fallback table, XYZ is not.
FallbackOracles ==
    [SOL : {0, 0 - 1}, SAP : {0, 150 * PriceDen}, XYZ : {0, 0 - 1, 40 * PriceDen}]

FallbackPortfolios ==
    { [cash_eur |-> c * SubPerEur,
       positions |-> PositionsDict(<<"SOL", "SAP">>, [SOL |-> s, SAP |-> a]),
       history |-> <<>>] :
        c \in {0, 100},
        s \in {Absent, 40 * SubPerEur},
        a \in {Absent, 200 * SubPerEur} }

FallbackPlans ==
    { [classes |-> <<>>, orders |-> o] :
        o \in UNION { [1 .. n -> { Order(i, w) : i \in {"SOL", "SAP", "XYZ"},
                                                 w \in {0, 500000} }] :
                      n \in 0 .. MaxOrders } }

InitFallback ==
    /\ strategy = NoFile(Strat(<<>>, 0, 0))
    /\ sigFiles = [p \in Range(SignalPaths) |-> NoFile(<<>>)]
    /\ portFile \in { File(p) : p \in FallbackPortfolios }
    /\ planFile \in { File(p) : p \in FallbackPlans }
    /\ execLog = <<>>
    /\ oracle \in FallbackOracles
    /\ portBefore = portFile
    /\ EngineIdle
    /\ ValidatorIdle
    /\ PipelineIdle

SpecFallback == InitFallback /\ [][NextEngine]_vars

\* ----------------------------------------------- specification: the pipeline
PipelineStrategies ==
    { File(Strat(<<<<"equities", 600000>>, <<"crypto", 400000>>>>, 50000, 1000000)),
      File(Strat(<<<<"equities", 600000>>, <<"crypto", 400000>>>>, 50000, 350000)),
      File(Strat(<<<<"equities", 600000>>, <<"crypto", 400000>>>>, 50000, 600000)),
      File(Strat(<<<<"equities", 1000000>>>>, 50000, 1000000)),
      File(Strat(<<<<"equities", 500000>>, <<"crypto", 300000>>>>, 50000, 1000000)),
      NoFile(Strat(<<>>, 0, 0)),
      Corrupt(Strat(<<>>, 0, 0)) }

PipelinePortfolios ==
    { File([cash_eur |-> 11 * SubPerEur,
            positions |-> <<<<"SAP", 10 * SubPerEur>>, <<"IPRP", 7 * SubPerEur>>>>,
            history |-> <<>>]),
      File([cash_eur |-> 11 * SubPerEur, positions |-> <<>>, history |-> <<>>]),
      NoFile(EmptyPort) }

InitPipeline ==
    /\ strategy \in PipelineStrategies
    /\ sigFiles = [p \in Range(SignalPaths) |-> NoFile(<<>>)]
    /\ planFile = NoFile(EmptyPlan)
    /\ portFile \in PipelinePortfolios
    /\ execLog = <<>>
    /\ oracle = [BTC |-> 6, SAP |-> 6, IPRP |-> 0, AAPL |-> 100 * PriceDen]
    /\ portBefore = portFile
    /\ EngineIdle
    /\ ValidatorIdle
    /\ step = 1
    /\ pipe = "running"
    /\ trace = <<>>

NextPipeline ==
    \/ StageAgent
    \/ StageAgentFails
    \/ StageOrchestrator
    \/ StagePaperStart
    \/ Phase1
    \/ Phase2
    \/ SavePortfolio
    \/ AppendLog
    \/ PaperDone
    \/ Crash
    \/ StagePaperExit
    \/ StageValidate
    \/ StageReport

SpecPipeline == InitPipeline /\ [][NextPipeline]_vars

\* --------------------------------------------------------- claims: pipeline
Ran(stage) == \E k \in DOMAIN trace : trace[k].stage = stage
RanOk(stage) == \E k \in DOMAIN trace : trace[k].stage = stage /\ trace[k].status = 0
EngineEnded == pc \in {"done", "returned", "failed"}

\* C8 as stated: the validator has completed before the engine reads the plan
\* and mutates the Portfolio.
C8_ValidatorBeforeEngine ==
    pc # "idle" => Ran("run_validate.py")

\* C8 amended: in one pipeline run the stages execute in the order Plan
\* Builder, Paper Execution Engine, Plan Validator: the engine starts after the
\* builder has succeeded, and it has ended its cycle before the validator runs.
C8_BuilderEngineValidator ==
    /\ pc # "idle" => RanOk("orchestrator.main")
    /\ (pc # "idle" /\ ~EngineEnded) => valExit = -1
    /\ valExit # -1 =>
          (RanOk("interfaces.broker_adapter.paper") /\ EngineEnded)

\* C8 witness: the validator has reported on a plan the engine had already
\* executed into the Portfolio.
C8_Witness ==
    /\ valExit # -1
    /\ pc = "done"
    /\ portFile # portBefore
    /\ execLog # <<>>

\* C9: when the Plan Builder has succeeded, the engine cycle is executed,
\* whether the validator reports OK or FAIL: no run ends without the engine
\* having run, and every validator report comes after the engine's run.
C9_EngineRunsWhateverValidation ==
    /\ (pipe \in {"done", "aborted"} /\ RanOk("orchestrator.main"))
          => Ran("interfaces.broker_adapter.paper")
    /\ valExit # -1 => Ran("interfaces.broker_adapter.paper")

\* C9 witness: the validator reported FAIL and the engine had consumed the
\* plan and traded on it.
C9_Witness ==
    /\ valExit = 1
    /\ valJson.content.status = "FAIL"
    /\ RanOk("interfaces.broker_adapter.paper")
    /\ Len(execLog) > 0
    /\ portFile # portBefore

\* -------------------------------------------------------- claims: validator
Validated == valExit # -1
TheReport == valJson.content
PolicySum == SumSeq(ValSeq(strategy.content.alloc_target))

\* C10: when the policy's alloc_target weights do not sum to 1.0 (beyond 1e-6)
\* the validator records an error and the status is FAIL, whatever the plan.
C10_PolicySumErrorFails ==
    (Validated /\ Readable(strategy) /\ Abs(PolicySum - WeightScale) > 1)
        => (TheReport.errors # <<>> /\ TheReport.status = "FAIL")

\* What the validator was given: the policy fields with the defaults of lines
\* 46-48 and the classes of the plan ({} when the plan cannot be read)
GivenAlloc == IF Readable(strategy) THEN strategy.content.alloc_target ELSE <<>>
GivenBands == IF Readable(strategy) THEN strategy.content.bands ELSE 0
GivenPosMax ==
    IF Readable(strategy) THEN strategy.content.position_max_pct ELSE WeightScale
GivenClasses == IF Readable(planFile) THEN planFile.content.classes ELSE <<>>

\* the sum of the weights of a class of the plan, 0 for a class it does not have
WeightSumOf(cls) == SumSeq(ValSeq(Get(GivenClasses, cls, <<>>)))
ErrorsOfKind(kind) == SelectSeq(TheReport.errors, LAMBDA e : e.kind = kind)
BandErrorsFor(cls) == SelectSeq(ErrorsOfKind("band"), LAMBDA e : e.cls = cls)
WarnedMissing ==
    UNION { TheReport.warnings[k].classes :
              k \in { n \in DOMAIN TheReport.warnings :
                         TheReport.warnings[n].kind = "missing_classes" } }

\* C11 as stated: a policy class has a band error exactly when it is present in
\* the plan and its weight sum lies outside [target - band, target + band]; an
\* absent policy class has the missing-class warning and no band error.
C11_BandErrorOnlyWhenPresent ==
    Validated =>
        \A i \in DOMAIN GivenAlloc :
            LET cls    == GivenAlloc[i][1]
                target == GivenAlloc[i][2]
                actual == WeightSumOf(cls)
            IN  /\ Len(BandErrorsFor(cls)) > 0
                      <=> (/\ HasKey(GivenClasses, cls)
                           /\ (actual < target - GivenBands \/ actual > target + GivenBands))
                /\ ~HasKey(GivenClasses, cls) => cls \in WarnedMissing

\* C11 amended: a policy class has one band error exactly when its weight sum in
\* the plan, taken as 0.0 when the class is absent from the plan, lies outside
\* [target - band - 1e-6, target + band + 1e-6]; an absent policy class has the
\* missing-class warning as well.
C11_BandErrorAbsentCountsAsZero ==
    Validated =>
        \A i \in DOMAIN GivenAlloc :
            LET cls    == GivenAlloc[i][1]
                target == GivenAlloc[i][2]
                actual == WeightSumOf(cls)
                out    == actual < target - GivenBands - 1 \/ actual > target + GivenBands + 1
            IN  /\ Len(BandErrorsFor(cls)) = (IF out THEN 1 ELSE 0)
                /\ ~HasKey(GivenClasses, cls) => cls \in WarnedMissing

\* C11 witness: a plan that has one policy class within its band and lacks
\* another, which gets the warning and a band error.
C11_Witness ==
    /\ Validated
    /\ \E i, j \in DOMAIN GivenAlloc :
          /\ ~HasKey(GivenClasses, GivenAlloc[i][1])
          /\ GivenAlloc[i][1] \in WarnedMissing
          /\ Len(BandErrorsFor(GivenAlloc[i][1])) = 1
          /\ HasKey(GivenClasses, GivenAlloc[j][1])
          /\ Len(BandErrorsFor(GivenAlloc[j][1])) = 0

\* C12: the status is FAIL exactly when an error was recorded, the exit status
\* is non-zero exactly when the status is FAIL, and in both cases the report is
\* written to the report file and appended to the report log.
C12_FailIffErrorsExitIffFail ==
    Validated =>
        /\ TheReport.status \in {"OK", "FAIL"}
        /\ TheReport.status = "FAIL" <=> TheReport.errors # <<>>
        /\ valExit # 0 <=> TheReport.status = "FAIL"
        /\ Readable(valJson)
        /\ valLog = <<TheReport>>

\* C12 witness: a report with warnings and no error: status OK, exit status 0.
C12_Witness ==
    /\ Validated
    /\ TheReport.warnings # <<>>
    /\ TheReport.errors = <<>>
    /\ TheReport.status = "OK"
    /\ valExit = 0

\* the sum of all the weights of the plan, whatever their class
RECURSIVE AllWeights(_)
AllWeights(classes) ==
    IF classes = <<>> THEN <<>>
    ELSE ValSeq(Head(classes)[2]) \o AllWeights(Tail(classes))

\* C13: there is a total-weight error exactly when the sum of all the weights of
\* all the classes of the plan (classes unknown to the policy included) differs
\* from 1.0 by more than 1e-3.
C13_TotalWeightErrorIffOff ==
    Validated =>
        /\ Len(ErrorsOfKind("total_weight")) <= 1
        /\ Len(ErrorsOfKind("total_weight")) = 1
              <=> Abs(SumSeq(AllWeights(GivenClasses)) - WeightScale) > WeightScale \div 1000
        /\ TheReport.total_weight = SumSeq(AllWeights(GivenClasses))

\* C13 witness: the classes the policy knows sum to 1.0 and a class it does not
\* know takes the total beyond the tolerance.
C13_Witness ==
    /\ Validated
    /\ Len(ErrorsOfKind("total_weight")) = 1
    /\ \E i \in DOMAIN GivenClasses :
          /\ ~HasKey(GivenAlloc, GivenClasses[i][1])
          /\ SumSeq(AllWeights(GivenClasses)) - SumSeq(ValSeq(GivenClasses[i][2]))
                = WeightScale

\* C14: every instrument of every class whose weight exceeds position_max_pct
\* has exactly one position error, an instrument at or below it has none, and
\* the position errors are in order of descending weight.
C14_OneErrorPerViolatorDescending ==
    Validated =>
        LET caps == ErrorsOfKind("position_cap")
        IN  /\ \A i \in DOMAIN GivenClasses :
                  \A j \in DOMAIN GivenClasses[i][2] :
                      LET cls  == GivenClasses[i][1]
                          inst == GivenClasses[i][2][j][1]
                          w    == GivenClasses[i][2][j][2]
                      IN  Cardinality({ k \in DOMAIN caps :
                                          caps[k].cls = cls /\ caps[k].inst = inst })
                             = (IF w > GivenPosMax THEN 1 ELSE 0)
            /\ \A k \in DOMAIN caps :
                  /\ caps[k].w > GivenPosMax
                  /\ k < Len(caps) => caps[k].w >= caps[k + 1].w

\* C14 witness: two violators that the plan lists in ascending weight, and an
\* instrument under the cap.
C14_Witness ==
    /\ Validated
    /\ Len(ErrorsOfKind("position_cap")) >= 2
    /\ ErrorsOfKind("position_cap") # Violators(GivenClasses, GivenPosMax)
    /\ \E i \in DOMAIN GivenClasses : \E j \in DOMAIN GivenClasses[i][2] :
          GivenClasses[i][2][j][2] <= GivenPosMax

\* ---------------------------------------------------------- claims: engine
Saved == pc \in {"log", "done"}

\* C1: the cash persisted by a cycle that started from cash >= 0 and position
\* values >= 0 is >= 0, for fractional and integer-lot instruments alike.
C1_PersistedCashNonNegative ==
    (Saved /\ portBefore.content.cash_eur >= 0
           /\ \A i \in DOMAIN portBefore.content.positions :
                 portBefore.content.positions[i][2] >= 0)
        => portFile.content.cash_eur >= 0

\* C4: after Phase 1 every held instrument without a target weight has market
\* value 0 whenever its price is positive.
C4_OffPlanLiquidated ==
    pc = "phase2" =>
        \A i \in DOMAIN positions :
            (~HasKey(target_w, positions[i][1]) /\ get_exec_price(positions[i][1]) > 0)
                => positions[i][2] = 0

\* The distance of an instrument's position from nav * tw, and one lot's value,
\* both as numerators over the denominator d of tw in lowest terms
TwDen(tw) == WeightScale \div GCD(tw, WeightScale)
TwNum(tw) == tw \div GCD(tw, WeightScale)
Gap(inst, tw) == Abs(Get(positions, inst, 0) * TwDen(tw) - nav * TwNum(tw))
WithinLot(inst, tw) ==
    IF is_crypto(inst)
    THEN Gap(inst, tw) <= get_exec_price(inst) * TwDen(tw)
    ELSE Gap(inst, tw) < get_exec_price(inst) * QtyScale * TwDen(tw)
WithinEpsilon(inst, tw) == Gap(inst, tw) < SubPerMicro * TwDen(tw)

\* C5 as stated: after Phase 2 every on-plan instrument whose trade was not
\* cut to the cash or the holding is within one lot's value of nav * tw: less
\* than price (integer lots), at most price * 1e-6 (fractional).
C5_WithinOneLot ==
    pc = "phase3" =>
        \A i \in DOMAIN target_w :
            target_w[i][1] \notin limited => WithinLot(target_w[i][1], target_w[i][2])

\* C5 amended: ... is within one lot's value of nav * tw, or within the
\* engine's epsilon 1e-6 of it (a delta below 1e-6 is not traded at all).
C5_WithinOneLotOrEpsilon ==
    pc = "phase3" =>
        \A i \in DOMAIN target_w :
            target_w[i][1] \notin limited =>
                \/ WithinLot(target_w[i][1], target_w[i][2])
                \/ WithinEpsilon(target_w[i][1], target_w[i][2])

Traded(inst) == \E k \in DOMAIN executions : executions[k].instrument_id = inst

\* C5 witness: Phase 2 traded a fractional and an integer-lot instrument, none
\* cut, and the integer-lot one stays a positive distance from its target.
C5_Witness ==
    /\ pc = "phase3"
    /\ limited = {}
    /\ \E i, j \in DOMAIN target_w :
          /\ is_crypto(target_w[i][1]) /\ Traded(target_w[i][1])
          /\ ~is_crypto(target_w[j][1]) /\ Traded(target_w[j][1])
          /\ Gap(target_w[j][1], target_w[j][2]) > 0

\* C7 as stated: whatever the step at which a cycle fails, the persisted
\* Portfolio is the one from before the cycle.
C7_FailureKeepsPortfolio ==
    pc = "failed" => portFile = portBefore

\* C7 amended: a cycle that fails before the Portfolio is written leaves the
\* persisted Portfolio as it was before the cycle; the Execution Records are
\* appended after that write, so a cycle that fails while appending them has
\* already persisted the new Portfolio.
C7_FailureBeforeSaveKeepsPortfolio ==
    /\ (pc = "failed" /\ failedAt # "log") => (portFile = portBefore /\ execLog = <<>>)
    /\ (pc = "failed" /\ failedAt = "log") =>
          Len(portFile.content.history) = Len(portBefore.content.history) + 1

\* C7 witness: a cycle that had trades to make died before the write.
C7_Witness ==
    /\ pc = "failed"
    /\ failedAt = "phase3"
    /\ portFile = portBefore
    /\ portFile.content.positions # <<>>
    /\ planFile.content.orders # <<>>

\* ------------------------------------------------------ claims: Plan Builder
Planned == planFile.exists
ThePlan == planFile.content
ThePolicy == strategy.content
ClassTarget(cls) == Max(0, Min(WeightScale, Get(ThePolicy.alloc_target, cls, 0)))

\* C2: every instrument's target_weight in a built plan is at most
\* risk_limits.position_max_pct.
C2_WeightWithinCap ==
    Planned =>
        \A i \in DOMAIN ThePlan.orders :
            ThePlan.orders[i].target_weight <= ThePolicy.position_max_pct

\* C3 as stated: the weights of every class of a built plan sum to the class's
\* clamped policy target within 1e-6, for any number of instruments and any
\* position_max_pct.
C3_ClassSumWithinMicro ==
    Planned =>
        \A i \in DOMAIN ThePlan.classes :
            Abs(SumSeq(ValSeq(ThePlan.classes[i][2]))
                - ClassTarget(ThePlan.classes[i][1])) <= 1

\* C3 amended: when position_max_pct > 0, the weights of every class of a
\* built plan sum to the class's clamped policy target within half of 1e-6 per
\* instrument of the class (each weight is rounded to 6 decimals on its own).
C3_ClassSumWithinRounding ==
    (Planned /\ ThePolicy.position_max_pct > 0) =>
        \A i \in DOMAIN ThePlan.classes :
            2 * Abs(SumSeq(ValSeq(ThePlan.classes[i][2]))
                    - ClassTarget(ThePlan.classes[i][1]))
                <= Len(ThePlan.classes[i][2])

\* C3 witness: a plan in which the cap cut an instrument of a class of
\* several instruments and the class still sums to its positive target.
C3_Witness ==
    /\ Planned
    /\ ThePolicy.position_max_pct = 350000
    /\ \E i \in DOMAIN ThePlan.classes :
          /\ Len(ThePlan.classes[i][2]) >= 4
          /\ ClassTarget(ThePlan.classes[i][1]) = 400000
          /\ \E j \in DOMAIN ThePlan.classes[i][2] :
                ThePlan.classes[i][2][j][2] > 140000
          /\ Abs(SumSeq(ValSeq(ThePlan.classes[i][2])) - 400000) <= 1

\* -------------------------------------------------- claims: pipeline scenarios
ScenarioAlloc == <<<<"equities", 600000>>, <<"crypto", 400000>>>>
ScenarioPlanClasses ==
    <<<<"equities", <<<<"AAPL", 600000>>>>>>, <<"crypto", <<<<"BTC", 400000>>>>>>>>

\* Scenario A has run: the builder, on the policy {equities 0.6, crypto 0.4}
\* with band 0.05 and the signals AAPL 0.8 and BTC 0.6, then the validator.
ScenarioA ==
    /\ Readable(strategy)
    /\ strategy.content.alloc_target = ScenarioAlloc
    /\ strategy.content.bands = 50000
    /\ load_signals(sigFiles) = <<Sig("AAPL", 4), Sig("BTC", 3)>>
    /\ RanOk("orchestrator.main")
    /\ Validated

ScenarioAOutcome ==
    /\ planFile.content.classes = ScenarioPlanClasses
    /\ TheReport.status = "OK"
    /\ TheReport.total_weight = WeightScale

\* C15 as stated: in Scenario A the plan is equities {AAPL 0.6}, crypto
\* {BTC 0.4} and the validator reports OK with total_weight 1.0, whatever the
\* policy's position_max_pct.
C15_ScenarioA == ScenarioA => ScenarioAOutcome

\* C15 amended: ... when the policy's position_max_pct is at least 0.6.
C15_ScenarioAUncapped ==
    (ScenarioA /\ strategy.content.position_max_pct >= 600000) => ScenarioAOutcome

\* C15 witness: Scenario A has run under a position_max_pct of 1.0.
C15_Witness ==
    /\ ScenarioA
    /\ strategy.content.position_max_pct = WeightScale
    /\ ScenarioAOutcome
    /\ valExit = 0

\* Scenario B has run: the builder on no signals at all, then the validator.
ScenarioB ==
    /\ load_signals(sigFiles) = <<>>
    /\ RanOk("orchestrator.main")
    /\ Validated

\* C16: in Scenario B the plan is {classes: {}, orders: []}, and the validator
\* lists every policy class as missing and reports total_weight 0.0 and FAIL.
C16_ScenarioB ==
    ScenarioB =>
        /\ planFile = File(EmptyPlan)
        /\ WarnedMissing = Keys(strategy.content.alloc_target)
        /\ TheReport.total_weight = 0
        /\ TheReport.status = "FAIL"

\* C16 witness: Scenario B has run on a policy of two classes.
C16_Witness ==
    /\ ScenarioB
    /\ Cardinality(WarnedMissing) = 2
    /\ valExit = 1

\* C20: when the policy is missing or unreadable, or its alloc_target weights do
\* not sum to 1, the builder's run fails, no plan is written and the persisted
\* Portfolio is the one from before the pipeline run.
C20_BadPolicyStopsBuilderAndEngine ==
    (~Readable(strategy) \/ PolicySum # WeightScale) =>
        /\ ~RanOk("orchestrator.main")
        /\ planFile = NoFile(EmptyPlan)
        /\ portFile = portBefore

\* ------------------------------------------------- claims: engine, continued
\* C18: position values are never negative, in the engine's positions at every
\* point of a cycle and in the persisted Portfolio, and after Phase 3 no
\* persisted position has a value below epsilon (1e-6).
C18_PositionsNeverNegative ==
    /\ \A i \in DOMAIN positions : positions[i][2] >= 0
    /\ \A i \in DOMAIN portFile.content.positions :
          portFile.content.positions[i][2] >= 0
    /\ Saved => \A i \in DOMAIN portFile.content.positions :
                    portFile.content.positions[i][2] >= SubPerMicro

\* The persisted history and the one from before the running (or last) cycle
History == portFile.content.history
HistoryBefore == portBefore.content.history
PersistedNav ==
    portFile.content.cash_eur + SumSeq(ValSeq(portFile.content.positions))

\* C19: the history is append-only.  A cycle never changes the entries that
\* were there before it; a completed cycle has appended exactly one "rebalance"
\* entry, whose nav is the persisted cash plus the persisted positions within
\* 1e-6; before its Portfolio write a cycle has appended nothing.  This holds
\* for every cycle of a sequence of cycles.
C19_HistoryAppendOnly ==
    /\ Len(History) >= Len(HistoryBefore)
    /\ SubSeq(History, 1, Len(HistoryBefore)) = HistoryBefore
    /\ (pc \in {"phase1", "phase2", "phase3", "returned"}
           \/ (pc = "failed" /\ failedAt # "log")) => History = HistoryBefore
    /\ Saved =>
          /\ Len(History) = Len(HistoryBefore) + 1
          /\ History[Len(History)].event = "rebalance"
          /\ Abs(History[Len(History)].nav - PersistedNav) <= SubPerMicro

\* C19 witness: a second completed cycle, the entries of the first cycle and of
\* the seeding still in place before its own.
C19_Witness ==
    /\ pc = "done"
    /\ Len(History) = 3
    /\ History[1].event = "deposit"
    /\ History[2].event = "rebalance"
    /\ History[3].event = "rebalance"
    /\ History[3].nav # History[2].nav

\* Scenario C has run: a completed cycle from {cash 1000, positions {}} on a
\* plan whose only order gives AAPL the target weight 1.0, AAPL priced at 100.
ScenarioC ==
    /\ pc = "done"
    /\ portBefore.content.cash_eur = 1000 * SubPerEur
    /\ portBefore.content.positions = <<>>
    /\ planFile.content.orders = <<Order("AAPL", WeightScale)>>
    /\ oracle["AAPL"] = 100 * PriceDen

\* C17: Scenario C ends with positions.AAPL = 1000 and cash = 0, and its only
\* execution is one buy of quantity 10.
C17_ScenarioC ==
    ScenarioC =>
        /\ portFile.content.positions = <<<<"AAPL", 1000 * SubPerEur>>>>
        /\ portFile.content.cash_eur = 0
        /\ executions = <<Execution("AAPL", 100 * PriceDen, 10 * QtyScale)>>
        /\ execLog = executions

\* C17 witness: Scenario C has run and bought.
C17_Witness ==
    /\ ScenarioC
    /\ Len(execLog) = 1
    /\ execLog[1].qty > 0
    /\ portFile.content.history # <<>>

\* C21: when the engine cannot read the Portfolio file or the Plan file
\* (missing or unparsable), its run ends with a non-zero exit status, unlike a
\* successful cycle, and the Portfolio file and the execution log are unchanged.
C21_UnreadableInputFails ==
    (EngineEnded /\ (~Readable(portBefore) \/ ~Readable(planFile))) =>
        /\ PaperExitStatus # 0
        /\ portFile = portBefore
        /\ execLog = <<>>

\* ------------------------------------------------ claims: builder, continued
\* The signals the builder read, grouped by class
SignalsByClass == GroupByClass(<<>>, load_signals(sigFiles))
OrdersFor(inst) ==
    SelectSeq(ThePlan.orders, LAMBDA o : o.instrument_id = inst)

\* C22 as stated: a class that has signals but no entry in alloc_target has no
\* entry in plan.classes and no order for any of its instruments.
C22_UnknownClassDropped ==
    Planned =>
        \A i \in DOMAIN SignalsByClass :
            ~HasKey(ThePolicy.alloc_target, SignalsByClass[i][1]) =>
                /\ ~HasKey(ThePlan.classes, SignalsByClass[i][1])
                /\ \A j \in DOMAIN SignalsByClass[i][2] :
                      OrdersFor(SignalsByClass[i][2][j][1]) = <<>>

\* C22 amended: a class that has signals of positive aggregate confidence but no
\* entry in alloc_target gets the class weight 0: it is in plan.classes with
\* every one of its instruments at weight 0, and each instrument has one order,
\* a HOLD with target_weight 0.
C22_UnknownClassPlannedAtZero ==
    Planned =>
        LET by_class == SignalsByClass
        IN  \A i \in DOMAIN by_class :
                (/\ ~HasKey(ThePolicy.alloc_target, by_class[i][1])
                 /\ SumSeq(ValSeq(by_class[i][2])) > 0) =>
                    LET planned == Get(ThePlan.classes, by_class[i][1], <<>>)
                    IN  /\ HasKey(ThePlan.classes, by_class[i][1])
                        /\ KeySeq(planned) = KeySeq(by_class[i][2])
                        /\ \A j \in DOMAIN by_class[i][2] :
                              LET orders == OrdersFor(by_class[i][2][j][1])
                              IN  /\ planned[j][2] = 0
                                  /\ Len(orders) = 1
                                  /\ orders[1].action = "HOLD"
                                  /\ orders[1].target_weight = 0

\* C22 witness: a plan with a class the policy has and, at weight 0, a class it
\* does not have.
C22_Witness ==
    /\ Planned
    /\ \E i, j \in DOMAIN ThePlan.classes :
          /\ ~HasKey(ThePolicy.alloc_target, ThePlan.classes[i][1])
          /\ SumSeq(ValSeq(ThePlan.classes[i][2])) = 0
          /\ HasKey(ThePolicy.alloc_target, ThePlan.classes[j][1])
          /\ SumSeq(ValSeq(ThePlan.classes[j][2])) > 0

\* C23: a class whose signals have an aggregate confidence <= 0 has no entry in
\* plan.classes and no order for any of its instruments, and every class of
\* positive aggregate confidence is still planned.
C23_ZeroConfidenceClassSkipped ==
    Planned =>
        LET by_class == SignalsByClass
        IN  \A i \in DOMAIN by_class :
                IF SumSeq(ValSeq(by_class[i][2])) <= 0
                THEN /\ ~HasKey(ThePlan.classes, by_class[i][1])
                     /\ \A j \in DOMAIN by_class[i][2] :
                           OrdersFor(by_class[i][2][j][1]) = <<>>
                ELSE HasKey(ThePlan.classes, by_class[i][1])

\* C23 witness: a class with signals, all of confidence 0, is left out of a
\* plan that has another class.
C23_Witness ==
    /\ Planned
    /\ ThePlan.classes # <<>>
    /\ \E i \in DOMAIN SignalsByClass :
          /\ SignalsByClass[i][2] # <<>>
          /\ SumSeq(ValSeq(SignalsByClass[i][2])) = 0
          /\ ~HasKey(ThePlan.classes, SignalsByClass[i][1])

\* The intra-class weights of a class as build_plan hands them to
\* cap_position_weights, and what it returns for them
RawWeights(insts) == [den |-> SumSeq(ValSeq(insts)), d |-> insts]
CappedWeights(insts) ==
    cap_position_weights(RawWeights(insts), ThePolicy.position_max_pct)
\* entry j of the raw weights is above max_pct: the cap reduces it
Reduced(insts, j) ==
    insts[j][2] * WeightScale > ThePolicy.position_max_pct * SumSeq(ValSeq(insts))

\* C24: in the result of cap_position_weights every entry that the cap reduced
\* is exactly max_pct, and the other entries are rescaled so that the total is
\* 1.0 again.
C24_CappedEntriesKeepCap ==
    Planned =>
        LET by_class == SignalsByClass
        IN  \A i \in DOMAIN by_class :
            SumSeq(ValSeq(by_class[i][2])) > 0 =>
                LET insts == by_class[i][2]
                    out   == CappedWeights(insts)
                IN  /\ \A j \in DOMAIN insts :
                          Reduced(insts, j) =>
                              out.d[j][2] * WeightScale
                                 = ThePolicy.position_max_pct * out.den
                    /\ (\E j \in DOMAIN insts : ~Reduced(insts, j)) =>
                          SumSeq(ValSeq(out.d)) = out.den

\* ------------------------------------------------ claims: prices and lots
\* The price the engine is to trade an instrument at: the oracle's when it is
\* positive; else the fallback table's entry; else 100.0
OracleFailed(inst) == oracle[inst] <= 0
PriceToUse(inst) ==
    IF ~OracleFailed(inst) THEN oracle[inst]
    ELSE IF HasKey(FallbackPriceMap, inst)
         THEN Get(FallbackPriceMap, inst, 0) * PriceDen
         ELSE 100 * PriceDen

\* Phase 2 has dealt with an on-plan instrument: its trade was cut to the cash
\* or the holding, or its position is within one lot (at the price to use) or
\* within the epsilon of nav * tw
Processed(inst, tw) ==
    \/ inst \in limited
    \/ Gap(inst, tw) < SubPerMicro * TwDen(tw)
    \/ IF is_crypto(inst)
       THEN Gap(inst, tw) <= PriceToUse(inst) * TwDen(tw)
       ELSE Gap(inst, tw) < PriceToUse(inst) * QtyScale * TwDen(tw)

\* C25: every trade of the cycle is filled at the oracle's price when that is
\* positive, else at the fallback table's price, else at 100.0; and whatever
\* instruments the oracle fails on, the cycle reaches the end of Phase 2 with
\* every on-plan instrument dealt with.
C25_FallbackPriceCycleGoesOn ==
    /\ \A k \in DOMAIN executions :
          executions[k].avg_fill = PriceToUse(executions[k].instrument_id)
    /\ pc = "phase3" =>
          \A i \in DOMAIN target_w : Processed(target_w[i][1], target_w[i][2])

\* C25 witness: the oracle failed on a symbol outside the table and on one in
\* it; both were traded, at 100.0 and at the table's price, in the same cycle.
C25_Witness ==
    /\ pc = "done"
    /\ OracleFailed("XYZ") /\ OracleFailed("SOL")
    /\ \E j, k \in DOMAIN execLog :
          /\ execLog[j].instrument_id = "XYZ" /\ execLog[j].avg_fill = 100 * PriceDen
          /\ execLog[k].instrument_id = "SOL" /\ execLog[k].avg_fill = 160 * PriceDen

\* The value of Execution Record k (qty * price), the cash the engine had when
\* it made the trade (the cycle's starting cash and the trades before it), and
\* the value the cycle started with of the record's instrument
Notional(k) == Abs(executions[k].qty) * executions[k].avg_fill
RECURSIVE CashBefore(_)
CashBefore(k) ==
    IF k = 1 THEN portBefore.content.cash_eur
    ELSE CashBefore(k - 1) - executions[k - 1].qty * executions[k - 1].avg_fill
HeldBefore(inst) == Get(portBefore.content.positions, inst, 0)

\* The amount the engine asked to trade for record k, as a numerator over the
\* denominator d of the instrument's target weight (d = 1 off plan): the whole
\* holding off plan; on plan the distance to nav * tw, cut to the cash for a
\* buy and to the holding for a sale
RequestedNum(k) ==
    LET inst == executions[k].instrument_id
        tw   == Get(target_w, inst, 0)
    IN  IF ~HasKey(target_w, inst) THEN HeldBefore(inst)
        ELSE IF executions[k].qty > 0
        THEN Min(nav * TwNum(tw) - HeldBefore(inst) * TwDen(tw),
                 CashBefore(k) * TwDen(tw))
        ELSE Min(HeldBefore(inst) * TwDen(tw) - nav * TwNum(tw),
                 HeldBefore(inst) * TwDen(tw))
RequestedDen(k) ==
    IF HasKey(target_w, executions[k].instrument_id)
    THEN TwDen(Get(target_w, executions[k].instrument_id, 0))
    ELSE 1

\* C26: every execution of an instrument outside the fractional set has a
\* whole quantity of magnitude >= 1 and a value qty * price of at most the
\* requested amount; a quantity that is not whole is of a fractional instrument.
C26_LotConvention ==
    \A k \in DOMAIN executions :
        /\ ~is_crypto(executions[k].instrument_id) =>
              /\ executions[k].qty % QtyScale = 0
              /\ Abs(executions[k].qty) >= QtyScale
              /\ Notional(k) * RequestedDen(k) <= RequestedNum(k)
        /\ executions[k].qty % QtyScale # 0 => is_crypto(executions[k].instrument_id)

\* C26 witness: one cycle traded whole units for less than was asked, traded a
\* fraction of a fractional instrument, and made no trade for an integer-lot
\* instrument that was away from its target.
C26_Witness ==
    /\ pc = "phase3"
    /\ \E j, k \in DOMAIN executions :
          /\ ~is_crypto(executions[j].instrument_id)
          /\ Notional(j) * RequestedDen(j) < RequestedNum(j)
          /\ is_crypto(executions[k].instrument_id)
          /\ executions[k].qty % QtyScale # 0
    /\ \E i \in DOMAIN target_w :
          /\ ~is_crypto(target_w[i][1])
          /\ ~Traded(target_w[i][1])
          /\ ~WithinEpsilon(target_w[i][1], target_w[i][2])

\* C27: in every Execution Record the sign of qty gives the direction of the
\* trade: qty < 0 exactly when the instrument's position went down and the cash
\* up, qty > 0 exactly when the position went up and the cash down; no record
\* has qty = 0.
C27_QtySignGivesDirection ==
    pc = "phase3" =>
        \A k \in DOMAIN executions :
            LET inst == executions[k].instrument_id
                now  == Get(positions, inst, 0)
                cashAfter == CashBefore(k) - executions[k].qty * executions[k].avg_fill
            IN  /\ executions[k].qty # 0
                /\ executions[k].qty < 0 <=>
                      (now < HeldBefore(inst) /\ cashAfter > CashBefore(k))
                /\ executions[k].qty > 0 <=>
                      (now > HeldBefore(inst) /\ cashAfter < CashBefore(k))

\* C28: the NAV (cash + sum of positions) of the Portfolio persisted by a cycle
\* is within 1e-6 of the NAV of the Portfolio the cycle started from.
C28_NavConserved ==
    Saved =>
        Abs(current_nav(portFile.content) - current_nav(portBefore.content))
            <= SubPerMicro

\* ------------------------------------------------- claims: cycle after cycle
\* The Portfolio this cycle started from was written by an earlier cycle (of
\* the same plan and prices, where neither changes between cycles)
AfterEarlierCycle ==
    \E h \in DOMAIN portBefore.content.history :
        portBefore.content.history[h].event = "rebalance"

\* C29: a cycle run on the Portfolio that an earlier cycle of the same plan
\* and prices produced makes no trade and persists the same cash and positions.
C29_SecondCycleTradesNothing ==
    AfterEarlierCycle =>
        /\ executions = <<>>
        /\ Saved => /\ portFile.content.cash_eur = portBefore.content.cash_eur
                    /\ portFile.content.positions = portBefore.content.positions

\* ------------------------------------------------- claims: concurrent cycles
\* One whole cycle of the engine on the Portfolio p with the plan's orders, run
\* alone: the Portfolio it persists and the Execution Records it appends
SerialCycle(p, orders) ==
    LET tw == TargetWeights(<<>>, orders)
        s1 == Phase1Loop([cash |-> p.cash_eur, positions |-> p.positions,
                          executions |-> <<>>, limited |-> {}],
                         KeySeq(p.positions), tw)
        p1 == [p EXCEPT !.positions = s1.positions, !.cash_eur = Round6(s1.cash)]
        s2 == Phase2Loop(s1, tw, current_nav(p1))
    IN  [port |-> FinalPort(p1, s2.positions, s2.cash), executions |-> s2.executions]

\* The Portfolio the first of the two processes read
FirstRead ==
    IF Len(portBefore.content.history) <= Len(peer.before.history)
    THEN portBefore.content
    ELSE peer.before

Count(seq, r) == Cardinality({ k \in DOMAIN seq : seq[k] = r })

\* C30: when two cycles on the same Portfolio file have both ended, the
\* persisted Portfolio (cash, positions, history) is the one that the two
\* cycles run one after the other leave, and the execution log holds the
\* records of those two cycles and no others.
C30_ConcurrentCyclesSerializable ==
    (pc = "done" /\ peer.pc = "done") =>
        LET c1 == SerialCycle(FirstRead, planFile.content.orders)
            c2 == SerialCycle(c1.port, planFile.content.orders)
            serialLog == c1.executions \o c2.executions
        IN  /\ portFile.content = c2.port
            /\ Len(execLog) = Len(serialLog)
            /\ \A k \in DOMAIN execLog :
                  Count(execLog, execLog[k]) = Count(serialLog, execLog[k])

====
